---------------------------- MODULE Spec2Model ----------------------------
(***************************************************************************)
(* Model of the Jira client of CodeSlice (src/src/services/jiraService.ts): *)
(* the paginated fetch JiraService.getCurrentUserIssues and the normalizer  *)
(* JiraService.transformIssue with its text extractor extractDescription.   *)
(*                                                                         *)
(* JavaScript values are tagged records (field t is the tag, the payload    *)
(* has a field of its own per tag); JavaScript strings are TLA+ strings.    *)
(***************************************************************************)
EXTENDS Integers, Sequences, FiniteSets, TLC

(***************************************************************************)
(* Bounds of the model.                                                    *)
(***************************************************************************)
\* largest maxToReturn a caller passes under the arbitrary server
MaxCount == 3
\* longest issues array an arbitrary server puts in one page
MaxPageLen == 2
\* largest startAt an arbitrary server reports
MaxReportedStart == 1
\* largest maxResults an arbitrary server reports
MaxReportedSize == 2
\* largest total an arbitrary server reports
MaxTotal == 3
\* the request counter nreq stops counting here
MaxRequests == 3

(***************************************************************************)
(* JavaScript values.                                                      *)
(***************************************************************************)
Undef == [t |-> "undefined"]
Null == [t |-> "null"]
Str(s) == [t |-> "string", s |-> s]
Num(n) == [t |-> "number", n |-> n]
Obj(o) == [t |-> "object", o |-> o]
Arr(a) == [t |-> "array", a |-> a]
\* the object {}
EmptyObj == Obj([x \in {} |-> Undef])

Min(a, b) == IF a <= b THEN a ELSE b

\* v is null or undefined: what ?. and ?? test
Nullish(v) == v.t \in {"undefined", "null"}

\* !v is false
Truthy(v) ==
  CASE v.t = "undefined" -> FALSE
    [] v.t = "null" -> FALSE
    [] v.t = "string" -> v.s # ""
    [] v.t = "number" -> v.n # 0
    [] OTHER -> TRUE

\* a ?? b
Coalesce(a, b) == IF Nullish(a) THEN b ELSE a

\* x.name for x neither null nor undefined; own properties of objects only
Get(x, name) ==
  IF x.t = "object" /\ name \in DOMAIN x.o THEN x.o[name] ELSE Undef

\* x?.name
OptGet(x, name) == IF Nullish(x) THEN Undef ELSE Get(x, name)

\* Array.isArray(v)
IsArray(v) == v.t = "array"

Digit(d) == SubSeq("0123456789", d + 1, d + 1)

RECURSIVE NatToString(_)
NatToString(n) == IF n < 10 THEN Digit(n) ELSE NatToString(n \div 10) \o Digit(n % 10)

\* String(v), as a template literal and Array.prototype.join apply it
JsString(v) ==
  CASE v.t = "undefined" -> "undefined"
    [] v.t = "null" -> "null"
    [] v.t = "string" -> v.s
    [] v.t = "number" -> NatToString(v.n)
    [] v.t = "array" -> ""
    [] OTHER -> "[object Object]"

(***************************************************************************)
(* String helpers of the JavaScript library.                               *)
(***************************************************************************)
IsWs(c) == c \in {" ", "\t", "\n", "\r"}

First(s) == SubSeq(s, 1, 1)
Rest(s) == SubSeq(s, 2, Len(s))
Last(s) == SubSeq(s, Len(s), Len(s))
Front(s) == SubSeq(s, 1, Len(s) - 1)

RECURSIVE TrimStart(_)
TrimStart(s) == IF s = "" THEN "" ELSE IF IsWs(First(s)) THEN TrimStart(Rest(s)) ELSE s

RECURSIVE TrimEnd(_)
TrimEnd(s) == IF s = "" THEN "" ELSE IF IsWs(Last(s)) THEN TrimEnd(Front(s)) ELSE s

\* String.prototype.trim
Trim(s) == TrimEnd(TrimStart(s))

\* s.replace(/\s+/g, ' '): inWs says the previous character was whitespace
RECURSIVE CollapseFrom(_, _)
CollapseFrom(s, inWs) ==
  IF s = "" THEN ""
  ELSE IF Len(s) = 1
       THEN (IF IsWs(s) THEN (IF inWs THEN "" ELSE " ") ELSE s)
       ELSE LET half == Len(s) \div 2
                left == SubSeq(s, 1, half)
            IN CollapseFrom(left, inWs)
                 \o CollapseFrom(SubSeq(s, half + 1, Len(s)), IsWs(Last(left)))

CollapseWs(s) == CollapseFrom(s, FALSE)

\* parts.join(' ') for a sequence of JavaScript values
RECURSIVE JoinSpace(_)
JoinSpace(parts) ==
  IF parts = <<>> THEN ""
  ELSE IF Len(parts) = 1 THEN JsString(parts[1])
  ELSE JsString(parts[1]) \o " " \o JoinSpace(Tail(parts))

\* s.replace(/\/+$/, '')
\* only the last slash is removed
StripOneSlash(s) == IF s # "" /\ Last(s) = "/" THEN Front(s) ELSE s

\* replace(/\/+$/, '')
RECURSIVE StripTrailingSlashes(_)
StripTrailingSlashes(s) ==
  IF s = "" THEN "" ELSE IF Last(s) = "/" THEN StripTrailingSlashes(Front(s)) ELSE s

(***************************************************************************)
(* JiraService.extractDescription                                          *)
(***************************************************************************)
\* the sentinel followed by a space
NoDescriptionPadded == "No description "

NoDescription == "No description"

\* the text fragments the closure walk pushes for one node, in visit order
RECURSIVE Walk(_)
RECURSIVE WalkAll(_)
\* the children visited before the node's own text
WalkPostOrder(node) ==
  IF ~Truthy(node) THEN <<>>
  ELSE (IF IsArray(Get(node, "content")) THEN WalkAll(Get(node, "content").a) ELSE <<>>)
       \o (IF Get(node, "type") = Str("text") /\ Truthy(Get(node, "text"))
           THEN <<Get(node, "text")>> ELSE <<>>)

Walk(node) ==
  IF ~Truthy(node) THEN <<>>
  ELSE (IF Get(node, "type") = Str("text") /\ Truthy(Get(node, "text"))
        THEN <<Get(node, "text")>> ELSE <<>>)
       \o (IF IsArray(Get(node, "content")) THEN WalkAll(Get(node, "content").a) ELSE <<>>)

\* nodes.forEach(walk)
WalkAll(nodes) == IF nodes = <<>> THEN <<>> ELSE Walk(nodes[1]) \o WalkAll(Tail(nodes))

\* String(part) inside join raises a TypeError for an object whose own
\* toString is not callable, as every toString property of a JSON object is
JoinRaises(parts) ==
  \E i \in 1..Len(parts) : parts[i].t = "object" /\ "toString" \in DOMAIN parts[i].o

\* the block of the try statement: the string it returns, the error it raises,
\* or neither when desc.content is no array
TryBlock(d) ==
  IF IsArray(Get(d, "content"))
  THEN LET parts == WalkAll(Get(d, "content").a)
       IN IF JoinRaises(parts)
          THEN [kind |-> "raise", error |-> "TypeError"]
          ELSE LET text == Trim(CollapseWs(JoinSpace(parts)))
               IN [kind |-> "return", value |-> IF text # "" THEN text ELSE NoDescription]
  ELSE [kind |-> "next"]

\* a catch that lets the error out
CatchRethrow(r) == r

\* catch { /* ignore and fall through */ }
CatchIgnore(r) == IF r.kind = "raise" THEN [kind |-> "next"] ELSE r

\* strings trimmed at the start only
TrimLeftOnly(s) == TrimStart(s)

\* desc.trim()
TrimDesc(s) == Trim(s)

\* how extractDescription ends: the string it returns, or the error it raises
ExtractOutcome(d) ==
  IF ~Truthy(d) THEN [kind |-> "return", value |-> NoDescription]
  ELSE IF d.t = "string"
       THEN [kind |-> "return",
             value |-> IF TrimDesc(d.s) # "" THEN TrimDesc(d.s) ELSE NoDescription]
  ELSE LET r == CatchIgnore(TryBlock(d))
       IN IF r.kind = "next" THEN [kind |-> "return", value |-> NoDescription] ELSE r

\* the string extractDescription returns
ExtractDescription(d) == ExtractOutcome(d).value

(***************************************************************************)
(* JiraService.transformIssue                                              *)
(***************************************************************************)
\* const maxLength = 100
MaxLength == 100

\* the marker appended on truncation: the three characters of the literal
Ellipsis == "â€¦"

NoSummary == "No Summary"
Unknown == "Unknown"

\* no truncation at all
TruncateNone(description) == description

\* description.length > maxLength ? description.slice(0, maxLength) + marker : description
Truncate(description) ==
  IF Len(description) > MaxLength
  THEN SubSeq(description, 1, MaxLength) \o Ellipsis
  ELSE description

\* issue?.fields?.<field>
FieldOf(issue, field) == OptGet(OptGet(issue, "fields"), field)

\* the fallback taken with || instead of ??
NameOrUnknownFalsy(issue, field) ==
  IF Truthy(OptGet(FieldOf(issue, field), "name"))
  THEN OptGet(FieldOf(issue, field), "name") ELSE Str(Unknown)

\* issue?.fields?.<field>?.name ?? 'Unknown'
NameOrUnknown(issue, field) ==
  Coalesce(OptGet(FieldOf(issue, field), "name"), Str(Unknown))

\* issue?.fields?.summary ?? 'No Summary'
SummaryOf(issue) == Coalesce(FieldOf(issue, "summary"), Str(NoSummary))

\* `${this.baseUrl.replace(/\/+$/,'')}/browse/${issue.key}`
BrowseUrl(base, key) == StripTrailingSlashes(base) \o "/browse/" \o JsString(key)

\* issue.key, which raises a TypeError on null and undefined
KeyRaises(issue) == Nullish(issue)

\* the value transformIssue returns, or the TypeError it raises
TransformIssue(issue, base) ==
  IF KeyRaises(issue)
  THEN [ok |-> FALSE, error |-> "TypeError"]
  ELSE [ok |-> TRUE,
        rec |-> [key |-> Get(issue, "key"),
                 summary |-> SummaryOf(issue),
                 description |-> Str(Truncate(ExtractDescription(FieldOf(issue, "description")))),
                 issueType |-> NameOrUnknown(issue, "issuetype"),
                 status |-> NameOrUnknown(issue, "status"),
                 priority |-> NameOrUnknown(issue, "priority"),
                 url |-> Str(BrowseUrl(base, Get(issue, "key")))]]

(***************************************************************************)
(* Raw issues a page may carry: every JSON shape of the fields read.       *)
(***************************************************************************)
\* marks a property the JSON object does not have
Absent == [t |-> "absent"]

\* the object with the properties of r that are not Absent
Prune(r) == Obj([n \in {m \in DOMAIN r : r[m] # Absent} |-> r[n]])

RECURSIVE Repeat(_, _)
Repeat(s, n) ==
  IF n = 0 THEN ""
  ELSE LET half == Repeat(s, n \div 2)
       IN IF n % 2 = 0 THEN half \o half ELSE half \o half \o s

TextNode(s) == Obj([type |-> Str("text"), text |-> Str(s)])

\* {content: [{content: [text foo]}, text bar]}
NestedDoc ==
  Obj([content |-> Arr(<<Obj([content |-> Arr(<<TextNode("foo")>>)]), TextNode("bar")>>)])

SummaryLeaves == {Absent, Null, Str(""), Str("Fix login"), Num(7)}

TypeHolders ==
  {Absent, Null, EmptyObj, Obj([name |-> Null]), Obj([name |-> Str("")]),
   Obj([name |-> Str("Bug")]), Str("Bug")}

StatusHolders == {Absent, EmptyObj, Obj([name |-> Str("Open")])}

PriorityHolders == {Absent, Null, Obj([name |-> Str("High")])}

DescriptionLeaves ==
  {Absent, Null, Str(""), Str("  "), Str(" hello world "), Str("ok"), Num(0), Num(5),
   Str(Repeat("x", MaxLength)), Str(Repeat("x", MaxLength + 1)),
   NestedDoc, Obj([content |-> Arr(<<>>)]), Obj([content |-> Str("text")])}

FieldsValues ==
  {Absent, Null, Str("oops")}
  \cup {Prune(r) : r \in [summary : SummaryLeaves, issuetype : TypeHolders,
                          status : StatusHolders, priority : PriorityHolders,
                          description : DescriptionLeaves]}

KeyLeaves == {Absent, Null, Str("ABC-1"), Str(""), Num(7)}

RawIssues ==
  {Null, Str("oops")} \cup {Prune(r) : r \in [key : KeyLeaves, fields : FieldsValues]}

BaseUrls == {"https://x.atlassian.net", "https://x.atlassian.net//"}

(***************************************************************************)
(* State.                                                                  *)
(*   baseUrl       JiraService.baseUrl                                     *)
(*   pc            where getCurrentUserIssues stands                       *)
(*   maxToReturn, accumulated, startAt, pageSize   its parameter and locals *)
(*   request       the page request awaiting its response                  *)
(*   res           status of the last response received                    *)
(*   data          body of the page being processed                        *)
(*   idx           issues of data already visited by the for-of loop       *)
(*   nreq          page requests issued so far (counted up to MaxRequests)  *)
(*   outcome       what the promise settled to                             *)
(*   srvTotal, srvCap   the truthful server: issues it holds, page cap      *)
(*   rawIssue, normResult   argument and result of transformIssue alone     *)
(*   desc, extraction   argument and result of extractDescription alone     *)
(***************************************************************************)
VARIABLES baseUrl, pc, maxToReturn, accumulated, startAt, pageSize, request,
          res, data, idx, nreq, outcome, srvTotal, srvCap, rawIssue, normResult,
          desc, extraction, calls, config, view, jiraTickets, html, loads, messages,
          arr, count, picked, used, pickPc,
          workspace, filesProvider, testsProvider, docsProvider, fired, notices, slices

vars == <<baseUrl, pc, maxToReturn, accumulated, startAt, pageSize, request,
          res, data, idx, nreq, outcome, srvTotal, srvCap, rawIssue, normResult,
          desc, extraction, calls, config, view, jiraTickets, html, loads, messages,
          arr, count, picked, used, pickPc,
          workspace, filesProvider, testsProvider, docsProvider, fired, notices, slices>>

\* the frames of two invocations of getCurrentUserIssues
callVars == <<calls>>

\* the state of the sidebar provider and of the window it reports to
viewVars == <<config, view, jiraTickets, html, loads, messages>>

\* the state of the operations that run apart from a fetch
\* the parameters and locals of pickRandom
pickVars == <<arr, count, picked, used, pickPc>>

\* the three tree providers, the window and the invocations of sliceAndNotify
sliceVars ==
  <<workspace, filesProvider, testsProvider, docsProvider, fired, notices, slices>>

restVars == <<desc, extraction, callVars, viewVars, pickVars, sliceVars>>

fetchVars == <<pc, maxToReturn, accumulated, startAt, pageSize, request,
               res, data, idx, nreq, outcome>>

NoRequest == [kind |-> "none"]
NoResponse == [kind |-> "none"]
NoData == [t |-> "nodata"]
Pending == [kind |-> "pending"]
NoHtml == [kind |-> "none"]
NotCalled == [kind |-> "notcalled"]

Returned(v) == [kind |-> "returned", value |-> v]
Rejected(name, message) == [kind |-> "rejected", name |-> name, message |-> message]

(***************************************************************************)
(* JiraService.getCurrentUserIssues                                        *)
(***************************************************************************)
\* the fixed page size limit of line 24
PageLimit == 50

\* const pageSize = Math.min(50, maxToReturn)
PageSizeFor(max) == Min(PageLimit, max)

\* every request asks for a whole page
RequestSizeWhole(size, max, acc) == size

\* Math.min(pageSize, maxToReturn - accumulated.length)
RequestSize(size, max, acc) == Min(size, max - Len(acc))

\* the while condition: accumulated.length < maxToReturn
NeedsMore(acc, max) == Len(acc) < max

\* the break taken one record late
ReachedLimitStrict(acc, max) == Len(acc) > max

\* the break of the for-of loop: accumulated.length >= maxToReturn
ReachedLimit(acc, max) == Len(acc) >= max

\* the cursor is left where it was
AdvancedCursorStuck(d, cursor, size) == cursor

\* the cursor advanced by the local values alone, whatever the page reports
AdvancedCursorLocal(d, cursor, size) == cursor + size

\* (data.startAt ?? startAt) + (data.maxResults ?? pageSize)
AdvancedCursor(d, cursor, size) ==
  Coalesce(Get(d, "startAt"), Num(cursor)).n + Coalesce(Get(d, "maxResults"), Num(size)).n

\* data.total ?? accumulated.length
TotalOf(d, acc) == Coalesce(Get(d, "total"), Num(Len(acc))).n

\* the loop left only when the cursor has passed the total
ReadAllStrict(cursor, total) == cursor > total

\* if (startAt >= total) break
ReadAll(cursor, total) == cursor >= total

\* for (const issue of data.issues) raises unless data.issues is iterable
IssuesRaise(d) == Nullish(d) \/ ~IsArray(Get(d, "issues"))

StatusText(status) ==
  CASE status = 400 -> "Bad Request"
    [] status = 401 -> "Unauthorized"
    [] status = 403 -> "Forbidden"
    [] status = 404 -> "Not Found"
    [] OTHER -> "Internal Server Error"

\* 403 is given no hint
HintFor401Only(status) ==
  IF status = 401
  THEN " Check your site URL (e.g. https://yourcompany.atlassian.net), email, and API token permissions."
  ELSE IF status = 400 THEN " The JQL or fields may be invalid for this site."
  ELSE ""

\* the hint of lines 45-50
HintFor(status) ==
  IF status = 401 \/ status = 403
  THEN " Check your site URL (e.g. https://yourcompany.atlassian.net), email, and API token permissions."
  ELSE IF status = 400 THEN " The JQL or fields may be invalid for this site."
  ELSE ""

\* `Jira API error: ${res.status} ${res.statusText} - ${text}${hint}`
ErrorMessage(status, text) ==
  "Jira API error: " \o NatToString(status) \o " " \o StatusText(status)
     \o " - " \o text \o HintFor(status)

\* baseQs.toString(): jql and fields, form-urlencoded
BaseQs ==
  "jql=assignee+%3D+currentUser%28%29+ORDER+BY+updated+DESC"
     \o "&fields=summary%2Cdescription%2Cissuetype%2Cstatus%2Cpriority"

\* `${this.baseUrl.replace(/\/+$/,'')}/rest/api/3/search/jql?${pageQs.toString()}`
RequestUrl(base, cursor, maxResults) ==
  StripTrailingSlashes(base) \o "/rest/api/3/search/jql?" \o BaseQs
     \o "&startAt=" \o NatToString(cursor) \o "&maxResults=" \o NatToString(maxResults)

\* the top of the while loop with the locals acc and cursor: the next page
\* request goes out, or the loop ends and accumulated is returned
LoopTop(acc, cursor, size) ==
  IF NeedsMore(acc, maxToReturn)
  THEN /\ pc' = "awaiting"
       /\ request' = [kind |-> "get", startAt |-> cursor,
                      maxResults |-> RequestSize(size, maxToReturn, acc),
                      url |-> RequestUrl(baseUrl, cursor,
                                         RequestSize(size, maxToReturn, acc))]
       /\ nreq' = Min(nreq + 1, MaxRequests)
       /\ outcome' = outcome
  ELSE /\ pc' = "done"
       /\ request' = NoRequest
       /\ nreq' = nreq
       /\ outcome' = Returned(acc)

\* the call: locals are initialised and the loop is entered
Start ==
  /\ pc = "start"
  /\ accumulated' = <<>>
  /\ startAt' = 0
  /\ pageSize' = PageSizeFor(maxToReturn)
  /\ LoopTop(<<>>, 0, PageSizeFor(maxToReturn))
  /\ UNCHANGED <<baseUrl, maxToReturn, res, data, idx, srvTotal, srvCap, rawIssue, normResult, restVars>>

\* the promise rejects with the given error
Throw(name, message) ==
  /\ pc' = "failed"
  /\ request' = NoRequest
  /\ outcome' = Rejected(name, message)

\* await fetch(...) rejects, or the body cannot be read: DNS, TLS, timeout
TransportFailure ==
  /\ pc = "awaiting"
  /\ Throw("TypeError", "fetch failed")
  /\ UNCHANGED <<baseUrl, maxToReturn, accumulated, startAt, pageSize, res, data, idx,
                 nreq, srvTotal, srvCap, rawIssue, normResult, restVars>>

\* a failed page ends the fetch with the records of the earlier pages
OnHttpErrorPartial(status, text) ==
  /\ res' = [kind |-> "response", ok |-> FALSE, status |-> status, text |-> text]
  /\ pc' = "done"
  /\ request' = NoRequest
  /\ outcome' = Returned(accumulated)
  /\ UNCHANGED <<accumulated, startAt, nreq>>

\* lines 42-52: the response is not ok
OnHttpError(status, text) ==
  /\ res' = [kind |-> "response", ok |-> FALSE, status |-> status, text |-> text]
  /\ Throw("Error", ErrorMessage(status, text))
  /\ UNCHANGED <<accumulated, startAt, nreq>>

ErrorStatuses == {400, 401, 403, 404, 500}

\* await res.text(): the body of the failed response, which may be empty
ErrorBodies == {"denied", ""}

ResponseError ==
  /\ pc = "awaiting"
  /\ \E status \in ErrorStatuses, text \in ErrorBodies : OnHttpError(status, text)
  /\ UNCHANGED <<baseUrl, maxToReturn, pageSize, data, idx, srvTotal, srvCap,
                 rawIssue, normResult, restVars>>

\* lines 54-61: a 2xx response with the JSON body d; the for-of loop starts
\* the request for the following page goes out before the page is processed
OnPagePrefetch(d) ==
  /\ res' = [kind |-> "response", ok |-> TRUE, status |-> 200]
  /\ data' = d
  /\ idx' = 0
  /\ IF IssuesRaise(d)
     THEN Throw("TypeError", "data.issues is not iterable")
     ELSE /\ pc' = IF Get(d, "issues").a = <<>> THEN "afterFor" ELSE "forOf"
          /\ request' = [request EXCEPT !.startAt = request.startAt + request.maxResults]
          /\ outcome' = outcome
  /\ UNCHANGED <<baseUrl, maxToReturn, accumulated, startAt, pageSize, nreq,
                 srvTotal, srvCap, rawIssue, normResult, restVars>>

OnPage(d) ==
  /\ res' = [kind |-> "response", ok |-> TRUE, status |-> 200]
  /\ data' = d
  /\ idx' = 0
  /\ IF IssuesRaise(d)
     THEN Throw("TypeError", "data.issues is not iterable")
     ELSE /\ pc' = IF Get(d, "issues").a = <<>> THEN "afterFor" ELSE "forOf"
          /\ request' = NoRequest
          /\ outcome' = outcome
  /\ UNCHANGED <<baseUrl, maxToReturn, accumulated, startAt, pageSize, nreq,
                 srvTotal, srvCap, rawIssue, normResult, restVars>>

\* lines 61-66: one iteration of the for-of loop
PushIssue ==
  /\ pc = "forOf"
  /\ LET issues == Get(data, "issues").a
         r == TransformIssue(issues[idx + 1], baseUrl)
     IN IF ~r.ok
        THEN /\ Throw(r.error, "Cannot read properties of null (reading 'key')")
             /\ UNCHANGED <<accumulated, idx>>
        ELSE /\ accumulated' = Append(accumulated, r.rec)
             /\ idx' = idx + 1
             /\ pc' = IF ReachedLimit(accumulated', maxToReturn) \/ idx' = Len(issues)
                      THEN "afterFor" ELSE "forOf"
             /\ UNCHANGED <<request, outcome>>
  /\ UNCHANGED <<baseUrl, maxToReturn, startAt, pageSize, res, data, nreq,
                 srvTotal, srvCap, rawIssue, normResult, restVars>>

\* lines 68-76: the cursor advances; the loop breaks, or goes to its top
EndPage ==
  /\ pc = "afterFor"
  /\ startAt' = AdvancedCursor(data, startAt, pageSize)
  /\ data' = NoData
  /\ idx' = 0
  /\ IF ReadAll(startAt', TotalOf(data, accumulated))
     THEN /\ pc' = "done"
          /\ outcome' = Returned(accumulated)
          /\ UNCHANGED <<request, nreq>>
     ELSE LoopTop(accumulated, startAt', pageSize)
  /\ UNCHANGED <<baseUrl, maxToReturn, accumulated, pageSize, res, srvTotal, srvCap,
                 rawIssue, normResult, restVars>>

(***************************************************************************)
(* The server.  An arbitrary server answers a page request with any body;  *)
(* the truthful server holds srvTotal issues and answers from them.        *)
(***************************************************************************)
\* a well-formed raw issue, the i-th of the server's list
MkIssue(i) ==
  Obj([key |-> Str("K-" \o NatToString(i)),
       fields |-> Obj([summary |-> Str("Issue " \o NatToString(i)),
                       description |-> Str("text"),
                       issuetype |-> Obj([name |-> Str("Task")]),
                       status |-> Obj([name |-> Str("Open")]),
                       priority |-> Obj([name |-> Str("High")])])])

\* what an arbitrary server puts in an issues array
PageIssueKinds == {MkIssue(1), Null}

RECURSIVE SeqsUpTo(_, _)
SeqsUpTo(S, n) ==
  IF n = 0 THEN {<<>>}
  ELSE SeqsUpTo(S, n - 1) \cup {Append(s, x) : s \in {q \in SeqsUpTo(S, n - 1) : Len(q) = n - 1}, x \in S}

IssuesValues == {Absent} \cup {Arr(s) : s \in SeqsUpTo(PageIssueKinds, MaxPageLen)}

NumbersTo(n) == {Absent} \cup {Num(k) : k \in 0..n}

\* the JSON bodies of an arbitrary server: any field may be missing
Bodies(totals) ==
  {Null} \cup {Prune(r) : r \in [issues : IssuesValues,
                                 startAt : NumbersTo(MaxReportedStart),
                                 maxResults : NumbersTo(MaxReportedSize),
                                 total : totals]}

ResponseOk ==
  /\ pc = "awaiting"
  /\ \E d \in Bodies(NumbersTo(MaxTotal)) : OnPage(d)

\* a server that never reports total
ResponseOkNoTotal ==
  /\ pc = "awaiting"
  /\ \E d \in Bodies({Absent}) : OnPage(d)

\* the truthful server's answer to the request req
TruthfulBody(req) ==
  LET applied == Min(req.maxResults, srvCap)
      last == Min(req.startAt + applied, srvTotal)
  IN Obj([issues |-> Arr([k \in 1..(IF last > req.startAt THEN last - req.startAt ELSE 0)
                            |-> MkIssue(req.startAt + k)]),
          startAt |-> Num(req.startAt),
          maxResults |-> Num(applied),
          total |-> Num(srvTotal)])

RespondTruthful ==
  /\ pc = "awaiting"
  /\ OnPage(TruthfulBody(request))

(***************************************************************************)
(* transformIssue on its own, for every raw issue.                         *)
(***************************************************************************)
Normalize ==
  /\ normResult = NotCalled
  /\ rawIssue \in RawIssues
  /\ normResult' = TransformIssue(rawIssue, baseUrl)
  /\ UNCHANGED <<baseUrl, rawIssue, srvTotal, srvCap, restVars>>
  /\ UNCHANGED fetchVars

(***************************************************************************)
(* Specifications.                                                         *)
(***************************************************************************)
\* the default of the parameter maxToReturn
DefaultMax == 10
\* the truthful server: sizes of its list, and what callers ask for
MaxServerIssues == 7
LargeTotal == 53
MaxTruthCount == 4
LargeCount == 52

FetchStart ==
  /\ pc = "start"
  /\ accumulated = <<>>
  /\ startAt = 0
  /\ pageSize = 0
  /\ request = NoRequest
  /\ res = NoResponse
  /\ data = NoData
  /\ idx = 0
  /\ nreq = 0
  /\ outcome = Pending

\* nothing runs apart from the fetch
\* no invocation has been made
CallsIdle == calls = <<>>

\* the provider as constructed, no view resolved
ViewIdle ==
  /\ config = "complete"
  /\ view = FALSE
  /\ jiraTickets = <<>>
  /\ html = NoHtml
  /\ loads = <<>>
  /\ messages = <<>>

\* pickRandom not called
PickIdle ==
  /\ arr = <<>>
  /\ count = 0
  /\ picked = <<>>
  /\ used = {}
  /\ pickPc = "idle"

\* the providers as constructed, no slice asked for
SliceIdle ==
  /\ workspace = <<>>
  /\ filesProvider = [files |-> <<>>, by |-> 0]
  /\ testsProvider = [files |-> <<>>, by |-> 0]
  /\ docsProvider = [files |-> <<>>, by |-> 0]
  /\ fired = 0
  /\ notices = <<>>
  /\ slices = <<>>

RestIdle ==
  /\ desc = Null
  /\ extraction = NotCalled
  /\ CallsIdle
  /\ ViewIdle
  /\ PickIdle
  /\ SliceIdle

\* a fetch against an arbitrary server
Init ==
  /\ baseUrl = "https://x.atlassian.net/"
  /\ maxToReturn \in 1..MaxCount
  /\ FetchStart
  /\ srvTotal = 0 /\ srvCap = 0
  /\ rawIssue = Null /\ normResult = NotCalled
  /\ RestIdle

Next == Start \/ TransportFailure \/ ResponseError \/ ResponseOk \/ PushIssue \/ EndPage

Spec == Init /\ [][Next]_vars

\* a fetch against a server that omits total in every response; every step
\* that can be taken is taken in the end
NextNoTotal ==
  Start \/ TransportFailure \/ ResponseError \/ ResponseOkNoTotal \/ PushIssue \/ EndPage

NoTotalSpec == Init /\ [][NextNoTotal]_vars /\ WF_vars(NextNoTotal)

\* the bodies of a server that echoes the requested startAt or omits it, and
\* reports a maxResults of at least 1 or omits it
EchoBodies(req) ==
  {Null} \cup
  {Prune([issues |-> is, startAt |-> s, maxResults |-> m, total |-> tot]) :
     is \in {Absent, Arr(<<>>), Arr(<<Null>>), Arr(<<MkIssue(1)>>),
             Arr(<<MkIssue(1), MkIssue(1)>>)},
     s \in {Absent, Num(req.startAt)},
     m \in NumbersTo(MaxReportedSize) \ {Num(0)},
     tot \in NumbersTo(MaxTotal)}

ResponseEcho ==
  /\ pc = "awaiting"
  /\ \E d \in EchoBodies(request) : OnPage(d)

\* a fetch against such a server; every step that can be taken is taken in
\* the end
NextEcho ==
  Start \/ TransportFailure \/ ResponseError \/ ResponseEcho \/ PushIssue \/ EndPage

EchoSpec == Init /\ [][NextEcho]_vars /\ WF_vars(NextEcho)

\* a fetch against the truthful server
InitTruthful ==
  /\ baseUrl \in BaseUrls \cup {"https://x.atlassian.net/"}
  /\ maxToReturn \in (1..MaxTruthCount) \cup {DefaultMax, LargeCount}
  /\ FetchStart
  /\ srvTotal \in (0..MaxServerIssues) \cup {LargeTotal}
  /\ srvCap \in {1, 2, 5, 100}
  /\ rawIssue = Null /\ normResult = NotCalled
  /\ RestIdle

NextTruthful == Start \/ RespondTruthful \/ PushIssue \/ EndPage

TruthfulSpec == InitTruthful /\ [][NextTruthful]_vars

\* transformIssue applied to each raw issue
InitNormalize ==
  /\ baseUrl \in BaseUrls
  /\ maxToReturn = DefaultMax
  /\ FetchStart
  /\ srvTotal = 0 /\ srvCap = 0
  /\ rawIssue \in RawIssues
  /\ normResult = NotCalled
  /\ RestIdle

NextNormalize == Normalize

NormalizeSpec == InitNormalize /\ [][NextNormalize]_vars

(***************************************************************************)
(* extractDescription and the truncation on their own, for every shape of   *)
(* the description field.                                                  *)
(***************************************************************************)
\* most nodes in the content array of a document
MaxDocNodes == 2

\* a text node whose payload cannot be turned into a string
BadTextNode == Obj([type |-> Str("text"), text |-> Obj([toString |-> Num(1)])])

\* a text node that also has children
TextWithChildren ==
  Obj([type |-> Str("text"), text |-> Str("head"), content |-> Arr(<<TextNode("tail")>>)])

DeepNode ==
  Obj([content |-> Arr(<<Obj([content |-> Arr(<<Obj([content |-> Arr(<<TextNode("deep")>>)])>>)])>>)])

\* what a content array may hold
NodeKinds ==
  {Null, EmptyObj, Str("bare"),
   TextNode("foo"), TextNode("bar"), TextNode(" a  b\n"), TextNode(Repeat("x", 60)),
   Obj([type |-> Str("text")]),
   Obj([type |-> Str("text"), text |-> Str("")]),
   Obj([text |-> Str("untyped")]),
   Obj([type |-> Str("paragraph"), content |-> Arr(<<TextNode("foo")>>)]),
   Obj([type |-> Str("paragraph"), content |-> Str("zzz")]),
   TextWithChildren, DeepNode, BadTextNode}

DocInputs ==
  {Obj([content |-> Arr(s)]) : s \in SeqsUpTo(NodeKinds, MaxDocNodes)}
  \cup {NestedDoc, EmptyObj, Arr(<<>>), Obj([content |-> Str("text")]),
        Obj([type |-> Str("text"), text |-> Str("root"), content |-> Arr(<<TextNode("kid")>>)])}

StringInputs ==
  {Str(""), Str("  "), Str("  hello world  "), Str("ok"), Str("\t a b \n"),
   Str(NoDescription),
   Str(Repeat("x", MaxLength - 1)), Str(Repeat("x", MaxLength)),
   Str(Repeat("x", MaxLength + 1)), Str(Repeat("x", MaxLength + 2)),
   Str(Repeat("x", MaxLength + 50)),
   Str(" " \o Repeat("x", MaxLength) \o " "),
   Str(" " \o Repeat("x", MaxLength + 1) \o " ")}

DescInputs == {Undef, Null, Num(0), Num(5)} \cup StringInputs \cup DocInputs

\* lines 80-82 of transformIssue on the description field desc
Extract ==
  /\ extraction = NotCalled
  /\ desc \in DescInputs
  /\ LET r == ExtractOutcome(desc)
     IN extraction' =
          IF r.kind = "return"
          THEN [ok |-> TRUE, text |-> r.value, description |-> Truncate(r.value)]
          ELSE [ok |-> FALSE, error |-> r.error]
  /\ UNCHANGED <<baseUrl, srvTotal, srvCap, rawIssue, normResult, desc, callVars, viewVars,
               pickVars, sliceVars>>
  /\ UNCHANGED fetchVars

InitExtract ==
  /\ baseUrl = "https://x.atlassian.net/"
  /\ maxToReturn = DefaultMax
  /\ FetchStart
  /\ srvTotal = 0 /\ srvCap = 0
  /\ rawIssue = Null /\ normResult = NotCalled
  /\ desc \in DescInputs
  /\ extraction = NotCalled
  /\ CallsIdle
  /\ ViewIdle
  /\ PickIdle
  /\ SliceIdle

\* extractDescription applied to the string it returned
ExtractAgain ==
  /\ extraction # NotCalled
  /\ extraction.ok
  /\ "again" \notin DOMAIN extraction
  /\ extraction' = [ok |-> TRUE, text |-> extraction.text,
                    description |-> extraction.description,
                    again |-> ExtractOutcome(Str(extraction.text))]
  /\ UNCHANGED <<baseUrl, srvTotal, srvCap, rawIssue, normResult, desc, callVars, viewVars,
               pickVars, sliceVars>>
  /\ UNCHANGED fetchVars

NextExtract == Extract \/ ExtractAgain

ExtractSpec == InitExtract /\ [][NextExtract]_vars

(***************************************************************************)
(* Properties.                                                             *)
(***************************************************************************)
Terminated == pc \in {"done", "failed"}

\* the issues array of the page being processed
PageIssues == Get(data, "issues").a

\* C1: for every maxToReturn > 0 and every sequence of server responses the
\* accumulator never holds more than maxToReturn records, in any intermediate
\* state of the fetch, and neither does the sequence returned.
C1_Bounded ==
  /\ Len(accumulated) <= maxToReturn
  /\ outcome.kind = "returned" => Len(outcome.value) <= maxToReturn

\* C1: the for-of loop broke in the middle of a page, at the limit
C1_Witness ==
  /\ pc = "afterFor"
  /\ idx < Len(PageIssues)
  /\ Len(accumulated) = maxToReturn

\* C2: once a page request has returned a non-success status the fetch has
\* rejected with the error of lines 42-52, has returned no records, and has no
\* page request in flight, whatever it had accumulated from earlier pages.
C2_FailFast ==
  (res.kind = "response" /\ ~res.ok) =>
     /\ pc = "failed"
     /\ outcome.kind = "rejected"
     /\ outcome.name = "Error"
     /\ request = NoRequest

\* C2: the second page failed after the first had delivered records
C2_Witness ==
  /\ res.kind = "response" /\ ~res.ok
  /\ nreq = 2
  /\ Len(accumulated) > 0
  /\ outcome.kind = "rejected"

\* C3: against the truthful server the fetch never fails, and it returns the
\* first min(srvTotal, maxToReturn) issues of the server's list, in the server's
\* order, none skipped and none twice.
C3_FirstIssuesInOrder ==
  /\ pc # "failed"
  /\ pc = "done" =>
       /\ outcome.kind = "returned"
       /\ Len(outcome.value) = Min(srvTotal, maxToReturn)
       /\ \A i \in 1..Len(outcome.value) :
            /\ outcome.value[i].key = Str("K-" \o NatToString(i))
            /\ outcome.value[i].summary = Str("Issue " \o NatToString(i))

\* C3: seven issues served in pages of five and two, in two requests
C3_Witness ==
  /\ pc = "done"
  /\ srvTotal = 7 /\ srvCap = 5 /\ maxToReturn = DefaultMax
  /\ nreq = 2
  /\ Len(outcome.value) = 7

\* C4: when a successfully received page has been processed, a further page
\* request is issued if and only if the accumulator is below maxToReturn and the
\* advanced cursor is below the reported total, or below the number of records
\* accumulated when the page reports no total.
C4_NextRequestIff ==
  [][pc = "afterFor" =>
       ((pc' = "awaiting") <=>
          /\ Len(accumulated) < maxToReturn
          /\ startAt' < (IF "total" \in DOMAIN data.o
                         THEN data.o.total.n ELSE Len(accumulated)))]_vars

\* C4: a second request went out after a page that delivered records
C4_Witness ==
  /\ pc = "awaiting"
  /\ nreq = 2
  /\ Len(accumulated) > 0

\* C5: whenever a successful page response omits total, no further page
\* request is issued after that page.
C5_StopsWithoutTotal ==
  [][(pc = "afterFor" /\ "total" \notin DOMAIN data.o) => pc' # "awaiting"]_vars

\* C6: when the server omits total in every response, every fetch terminates:
\* it returns or fails after finitely many page requests.
C6_Terminates == <>Terminated

\* C7: a 2xx page response whose body has no issues field does not make the
\* fetch fail.
C7_MissingIssuesTolerated ==
  (/\ res.kind = "response" /\ res.ok
   /\ data.t = "object"
   /\ "issues" \notin DOMAIN data.o) => pc # "failed"

(***************************************************************************)
(* Properties of transformIssue.                                           *)
(***************************************************************************)
RecordFields == {"key", "summary", "description", "issueType", "status", "priority", "url"}

IsNonEmptyString(v) == v.t = "string" /\ v.s # ""

\* the value at a property path of a raw issue, Absent when a level is missing
RECURSIVE PathValue(_, _)
PathValue(x, path) ==
  IF path = <<>> THEN x
  ELSE IF x.t = "object" /\ path[1] \in DOMAIN x.o
       THEN PathValue(x.o[path[1]], Tail(path))
       ELSE Absent

\* output field, path read, sentinel
NamedFields ==
  {<<"summary", <<"fields", "summary">>, "No Summary">>,
   <<"issueType", <<"fields", "issuetype", "name">>, "Unknown">>,
   <<"status", <<"fields", "status", "name">>, "Unknown">>,
   <<"priority", <<"fields", "priority", "name">>, "Unknown">>}

DescriptionField == <<"description", <<"fields", "description">>, "No description">>

\* C8: every record transformIssue returns has all seven fields populated
\* with a non-empty, defined string.
C8_AllFieldsPopulated ==
  (normResult # NotCalled /\ normResult.ok) =>
     \A f \in RecordFields : IsNonEmptyString(normResult.rec[f])

\* C9 as stated: a field whose path is missing gets its sentinel, and every
\* field that is present, description included, is copied unchanged.
C9_PresentCopiedUnchanged ==
  (normResult # NotCalled /\ normResult.ok) =>
     \A f \in NamedFields \cup {DescriptionField} :
        LET v == PathValue(rawIssue, f[2])
        IN normResult.rec[f[1]] = (IF v = Absent THEN Str(f[3]) ELSE v)

\* C9 amended: a field whose path is missing at any level, or whose leaf is
\* null, gets its sentinel; a present non-null summary, issuetype.name,
\* status.name or priority.name is copied unchanged; the description depends on
\* the raw description alone.
C9_SentinelOrCopy ==
  (normResult # NotCalled /\ normResult.ok) =>
     /\ \A f \in NamedFields :
          LET v == PathValue(rawIssue, f[2])
          IN normResult.rec[f[1]] = (IF v \in {Absent, Null} THEN Str(f[3]) ELSE v)
     /\ LET v == PathValue(rawIssue, DescriptionField[2])
        IN IF v \in {Absent, Null}
           THEN normResult.rec.description = Str(DescriptionField[3])
           ELSE normResult.rec.description =
                  TransformIssue(Obj([fields |-> Obj([description |-> v])]), baseUrl).rec.description

\* C9: the summary is missing with its parent, the type name is missing as a
\* leaf, the status name is present
C9_Witness ==
  /\ normResult # NotCalled /\ normResult.ok
  /\ PathValue(rawIssue, <<"fields">>) # Absent
  /\ PathValue(rawIssue, <<"fields", "summary">>) = Absent
  /\ PathValue(rawIssue, <<"fields", "issuetype">>) = EmptyObj
  /\ PathValue(rawIssue, <<"fields", "status", "name">>) = Str("Open")
  /\ PathValue(rawIssue, <<"fields", "description">>) = Absent
  /\ normResult.rec.summary = Str("No Summary")
  /\ normResult.rec.status = Str("Open")

\* C10: transformIssue returns a record for every raw issue a page may carry
\* and never raises.
C10_NormalizerTotal ==
  normResult # NotCalled => normResult.ok

(***************************************************************************)
(* Properties of extractDescription and of the truncation.                 *)
(***************************************************************************)
Extracted == extraction # NotCalled /\ extraction.ok

\* C11: an extracted text longer than 100 characters becomes its first 100
\* characters followed by exactly one marker character; a text of at most 100
\* characters is kept unchanged.
C11_OneMarkerCharacter ==
  Extracted =>
     IF Len(extraction.text) > 100
     THEN /\ Len(extraction.description) = 101
          /\ SubSeq(extraction.description, 1, 100) = SubSeq(extraction.text, 1, 100)
     ELSE extraction.description = extraction.text

\* C12 as stated: the description is never longer than 100 characters.
C12_AtMost100 == Extracted => Len(extraction.description) <= 100

\* C12 amended: the description holds at most the first 100 characters of the
\* extracted text, followed by the marker when the text was cut: at most 103
\* characters with the three-character marker of the source.
C12_AtMost100PlusMarker ==
  Extracted =>
     /\ Len(extraction.description) <= 103
     /\ SubSeq(extraction.description, 1, Min(Len(extraction.description), 100))
          = SubSeq(extraction.text, 1, Min(Len(extraction.description), 100))
     /\ Len(extraction.description) > 100 => Len(extraction.text) > 100

\* C12: a text of 150 characters was cut to 103
C12_Witness ==
  /\ Extracted
  /\ Len(extraction.text) = 150
  /\ Len(extraction.description) = 103

CharAt(s, i) == SubSeq(s, i, i)

AllWs(s) == \A i \in 1..Len(s) : IsWs(CharAt(s, i))

\* r is s without its leading and trailing whitespace, s not all whitespace
IsTrimOf(r, s) ==
  \E i \in 1..Len(s) :
     /\ ~IsWs(CharAt(s, i))
     /\ \A k \in 1..(i - 1) : IsWs(CharAt(s, k))
     /\ \E j \in i..Len(s) :
          /\ ~IsWs(CharAt(s, j))
          /\ \A k \in (j + 1)..Len(s) : IsWs(CharAt(s, k))
          /\ r = SubSeq(s, i, j)

\* C13: extractDescription returns 'No description' for an absent or empty
\* field; for a plain string it returns the string without its surrounding
\* whitespace, or 'No description' when nothing else is left.
C13_PlainString ==
  Extracted =>
     /\ desc \in {Undef, Null, Str("")} => extraction.text = "No description"
     /\ desc.t = "string" =>
          IF AllWs(desc.s) THEN extraction.text = "No description"
          ELSE IsTrimOf(extraction.text, desc.s)
     /\ desc = Str("  hello world  ") => extraction.text = "hello world"

\* C13: the padded string of the example was trimmed
C13_Witness ==
  /\ Extracted
  /\ desc = Str("  hello world  ")
  /\ extraction.text = "hello world"

\* the document shape read without the accessors of the code
IsTextNode(n) == n.t = "object" /\ "type" \in DOMAIN n.o /\ n.o.type = Str("text")

ChildrenOf(n) ==
  IF n.t = "object" /\ "content" \in DOMAIN n.o /\ n.o.content.t = "array"
  THEN n.o.content.a ELSE <<>>

\* the text nodes met by a depth-first, pre-order visit of the nodes on the stack
RECURSIVE PreOrderTextNodes(_)
PreOrderTextNodes(stack) ==
  IF stack = <<>> THEN <<>>
  ELSE (IF IsTextNode(Head(stack)) THEN <<Head(stack)>> ELSE <<>>)
       \o PreOrderTextNodes(ChildrenOf(Head(stack)) \o Tail(stack))

HasStringPayload(n) == "text" \in DOMAIN n.o /\ n.o.text.t = "string"

PayloadOf(n) == IF HasStringPayload(n) THEN n.o.text.s ELSE ""

RECURSIVE JoinPayloads(_)
JoinPayloads(nodes) ==
  IF nodes = <<>> THEN ""
  ELSE PayloadOf(Head(nodes)) \o " " \o JoinPayloads(Tail(nodes))

\* every text node of the document carries a string payload or none
StringPayloads(d) ==
  \A i \in 1..Len(PreOrderTextNodes(ChildrenOf(d))) :
     LET n == PreOrderTextNodes(ChildrenOf(d))[i]
     IN "text" \in DOMAIN n.o => n.o.text.t \in {"string", "null"}

\* a text node of the document carries an object that cannot be made a string
HasBadPayload(d) ==
  \E i \in 1..Len(PreOrderTextNodes(ChildrenOf(d))) :
     LET n == PreOrderTextNodes(ChildrenOf(d))[i]
     IN /\ "text" \in DOMAIN n.o
        /\ n.o.text.t = "object"
        /\ "toString" \in DOMAIN n.o.text.o
        /\ n.o.text.o.toString.t # "function"

IsDocument(d) == d.t = "object" /\ "content" \in DOMAIN d.o /\ d.o.content.t = "array"

\* C14: for a structured document the result is the text payloads of its text
\* nodes, in depth-first pre-order of the nodes under the child sequence, joined
\* with a space, whitespace runs collapsed and the ends trimmed, or
\* 'No description' when that is empty.
C14_FlattenPreOrder ==
  (Extracted /\ IsDocument(desc) /\ StringPayloads(desc)) =>
     LET flat == Trim(CollapseWs(JoinPayloads(PreOrderTextNodes(ChildrenOf(desc)))))
     IN extraction.text = (IF flat = "" THEN "No description" ELSE flat)

\* C14: the nested document of the example was flattened
C14_Witness ==
  /\ Extracted
  /\ desc = NestedDoc
  /\ extraction.text = "foo bar"

\* nodes that have no children and no text to give
Childless ==
  {Null, EmptyObj, Str("bare"), Obj([type |-> Str("text")]),
   Obj([type |-> Str("paragraph"), content |-> Str("zzz")])}

\* C15: extractDescription never raises: it returns a string for every input;
\* a document whose traversal fails gives 'No description', and so does a
\* document of nodes that are null, lack type, text and content, or whose
\* content is no sequence.
C15_NeverRaises ==
  extraction # NotCalled =>
     /\ extraction.ok
     /\ (IsDocument(desc) /\ HasBadPayload(desc)) => extraction.text = "No description"
     /\ (IsDocument(desc) /\ \A i \in 1..Len(desc.o.content.a) : desc.o.content.a[i] \in Childless)
          => extraction.text = "No description"
     /\ (desc.t = "object" /\ ~IsDocument(desc)) => extraction.text = "No description"

\* C15: a traversal that failed was swallowed
C15_Witness ==
  /\ Extracted
  /\ desc = Obj([content |-> Arr(<<TextNode("foo"), BadTextNode>>)])
  /\ extraction.text = "No description"

(***************************************************************************)
(* Properties of the URLs.                                                 *)
(***************************************************************************)
\* sub occurs in s
Contains(s, sub) ==
  \E i \in 1..(Len(s) - Len(sub) + 1) : SubSeq(s, i, i + Len(sub) - 1) = sub

StartsWith(s, prefix) == Len(s) >= Len(prefix) /\ SubSeq(s, 1, Len(prefix)) = prefix

\* b is base without its trailing slashes
IsStrippedOf(b, base) ==
  /\ StartsWith(base, b)
  /\ \A i \in (Len(b) + 1)..Len(base) : CharAt(base, i) = "/"
  /\ b = "" \/ CharAt(b, Len(b)) # "/"

StrippedBase ==
  CHOOSE b \in {SubSeq(baseUrl, 1, n) : n \in 0..Len(baseUrl)} : IsStrippedOf(b, baseUrl)

\* C16: the url of every record is the base URL without its trailing slashes,
\* then '/browse/', then the key, with no double slash before 'browse'; the url
\* of every page request starts with the same stripped base.
C16_UrlsFromStrippedBase ==
  /\ \A i \in 1..Len(accumulated) :
        /\ accumulated[i].url = Str(StrippedBase \o "/browse/" \o accumulated[i].key.s)
        /\ ~Contains(accumulated[i].url.s, "//browse")
        /\ (baseUrl = "https://x.atlassian.net/" /\ accumulated[i].key = Str("K-1"))
              => accumulated[i].url = Str("https://x.atlassian.net/browse/K-1")
  /\ request # NoRequest =>
        /\ StartsWith(request.url, StrippedBase \o "/rest/api/3/search/jql?")
        /\ ~Contains(request.url, "//rest")

\* C16: a base with two trailing slashes, a record made and a second page asked for
C16_Witness ==
  /\ baseUrl = "https://x.atlassian.net//"
  /\ Len(accumulated) >= 1
  /\ accumulated[1].url = Str("https://x.atlassian.net/browse/K-1")
  /\ nreq >= 2
  /\ request # NoRequest
  /\ StartsWith(request.url, "https://x.atlassian.net/rest/")

(***************************************************************************)
(* Properties of the error of a failed page.                               *)
(***************************************************************************)
AuthHint ==
  "Check your site URL (e.g. https://yourcompany.atlassian.net), email, and API token permissions."

QueryHint == "The JQL or fields may be invalid for this site."

StatusLine(status) ==
  CASE status = 400 -> "400 Bad Request"
    [] status = 401 -> "401 Unauthorized"
    [] status = 403 -> "403 Forbidden"
    [] status = 404 -> "404 Not Found"
    [] status = 500 -> "500 Internal Server Error"

HttpFailed == pc = "failed" /\ res.kind = "response" /\ ~res.ok

\* C17: the error of a failed page embeds the status code, the status text
\* and the response body; it carries the authentication hint exactly for 401
\* and 403, the malformed-query hint exactly for 400, and nothing after the
\* body for any other status.
C17_ErrorMessage ==
  HttpFailed =>
     /\ outcome.kind = "rejected"
     /\ StartsWith(outcome.message,
                   "Jira API error: " \o StatusLine(res.status) \o " - " \o res.text)
     /\ Contains(outcome.message, AuthHint) <=> res.status \in {401, 403}
     /\ Contains(outcome.message, QueryHint) <=> res.status = 400
     /\ res.status \notin {400, 401, 403} =>
          outcome.message = "Jira API error: " \o StatusLine(res.status) \o " - " \o res.text

\* C17: a 403 with a body failed the fetch with the authentication hint
C17_Witness ==
  /\ HttpFailed
  /\ res.status = 403
  /\ res.text = "denied"
  /\ Contains(outcome.message, "403 Forbidden - denied")
  /\ Contains(outcome.message, AuthHint)

(***************************************************************************)
(* Properties of the order of the page requests.                           *)
(***************************************************************************)
\* the number the page reports in field f, or dflt when it reports none
Reported(f, dflt) ==
  IF f \in DOMAIN data.o /\ data.o[f].t = "number" THEN data.o[f].n ELSE dflt

\* C18: at most one page request is outstanding: while a request is
\* outstanding no page is being processed, and a request is issued only by
\* the call itself or after the page before it was processed to its end, all
\* its issues visited and the cursor advanced.
C18_OneRequestAtATime ==
  [][ /\ request' # NoRequest => (pc' = "awaiting" /\ data' = NoData /\ idx' = 0)
      /\ pc = "awaiting" => request' = NoRequest
      /\ (request' # NoRequest /\ pc # "awaiting") =>
            /\ request = NoRequest
            /\ \/ pc = "start"
               \/ /\ pc = "afterFor"
                  /\ idx = Len(data.o.issues.a)
                  /\ accumulated' = accumulated
                  /\ startAt' = Reported("startAt", startAt) + Reported("maxResults", pageSize)
                  /\ request'.startAt = startAt'
    ]_vars

\* C18: the request for a second page is outstanding, the first page processed
C18_Witness ==
  /\ pc = "awaiting"
  /\ nreq = 2
  /\ request # NoRequest
  /\ request.startAt >= 1
  /\ Len(accumulated) >= 1
  /\ data = NoData

(***************************************************************************)
(* Two invocations of getCurrentUserIssues on one service, their awaits    *)
(* interleaved.  Between two awaits an invocation runs to completion, so a *)
(* step takes a frame from one await to the next.                          *)
(***************************************************************************)
MaxPairRequests == 2

\* const accumulated = [], let startAt = 0, const pageSize
NewFrame(max) ==
  [pc |-> "start", maxToReturn |-> max, accumulated |-> <<>>, startAt |-> 0,
   pageSize |-> PageSizeFor(max), request |-> NoRequest, nreq |-> 0,
   outcome |-> Pending, log |-> <<>>]

\* the top of the while loop in frame f
FrameLoopTop(f) ==
  IF NeedsMore(f.accumulated, f.maxToReturn)
  THEN [f EXCEPT !.pc = "awaiting",
                 !.request = [kind |-> "get", startAt |-> f.startAt,
                              maxResults |-> RequestSize(f.pageSize, f.maxToReturn, f.accumulated),
                              url |-> RequestUrl(baseUrl, f.startAt,
                                        RequestSize(f.pageSize, f.maxToReturn, f.accumulated))],
                 !.nreq = f.nreq + 1]
  ELSE [f EXCEPT !.pc = "done", !.request = NoRequest, !.outcome = Returned(f.accumulated)]

FrameThrow(f, name, message) ==
  [f EXCEPT !.pc = "failed", !.request = NoRequest, !.outcome = Rejected(name, message)]

\* the for-of loop over issues from position i on
RECURSIVE FramePush(_, _, _)
FramePush(f, issues, i) ==
  IF i > Len(issues) THEN f
  ELSE LET r == TransformIssue(issues[i], baseUrl)
       IN IF ~r.ok
          THEN FrameThrow(f, r.error, "Cannot read properties of null (reading 'key')")
          ELSE LET g == [f EXCEPT !.accumulated = Append(f.accumulated, r.rec)]
               IN IF ReachedLimit(g.accumulated, g.maxToReturn) THEN g
                  ELSE FramePush(g, issues, i + 1)

\* lines 54-74: a page arrived in frame f
FrameOnPage(f, d) ==
  IF IssuesRaise(d) THEN FrameThrow(f, "TypeError", "data.issues is not iterable")
  ELSE LET g == FramePush([f EXCEPT !.request = NoRequest], Get(d, "issues").a, 1)
           cursor == AdvancedCursor(d, g.startAt, g.pageSize)
       IN IF g.pc = "failed" THEN g
          ELSE IF ReadAll(cursor, TotalOf(d, g.accumulated))
          THEN [g EXCEPT !.startAt = cursor, !.pc = "done",
                         !.outcome = Returned(g.accumulated)]
          ELSE FrameLoopTop([g EXCEPT !.startAt = cursor])

\* what the await of frame f receives: a page, a failed response, no response
FrameOnResponse(f, r) ==
  LET g == [f EXCEPT !.log = Append(f.log, r)]
  IN CASE r.kind = "page" -> FrameOnPage(g, r.body)
       [] r.kind = "http" -> FrameThrow(g, "Error", ErrorMessage(r.status, r.text))
       [] OTHER -> FrameThrow(g, "TypeError", "fetch failed")

\* every invocation works on the accumulator of the first
AccOwnerShared(i) == 1

\* the invocation whose frame holds the accumulator that invocation i uses
AccOwner(i) == i

\* frame i as invocation i sees it
FrameOf(i) == [calls[i] EXCEPT !.accumulated = calls[AccOwner(i)].accumulated]

\* frame i replaced by f, the accumulator written where invocation i keeps it
StoreFrame(i, f) ==
  /\ calls' = [[calls EXCEPT ![i] = f]
                 EXCEPT ![AccOwner(i)].accumulated = f.accumulated]
  /\ UNCHANGED <<baseUrl, srvTotal, srvCap, rawIssue, normResult, desc, extraction, viewVars,
               pickVars, sliceVars>>
  /\ UNCHANGED fetchVars

PairBodies ==
  {Prune([issues |-> Arr(is), maxResults |-> m, total |-> tot]) :
     is \in {<<MkIssue(1)>>, <<MkIssue(2), MkIssue(3)>>, <<Null>>},
     m \in {Absent, Num(1)},
     tot \in {Absent, Num(MaxTotal)}}

PairStart ==
  \E i \in 1..2 :
     /\ calls[i].pc = "start"
     /\ StoreFrame(i, FrameLoopTop([FrameOf(i) EXCEPT !.accumulated = <<>>]))

PairResponseOk ==
  \E i \in 1..2 :
     /\ calls[i].pc = "awaiting"
     /\ Len(calls[i].log) < MaxPairRequests
     /\ \E d \in PairBodies :
           StoreFrame(i, FrameOnResponse(FrameOf(i), [kind |-> "page", body |-> d]))

PairResponseError ==
  \E i \in 1..2 :
     /\ calls[i].pc = "awaiting"
     /\ Len(calls[i].log) < MaxPairRequests
     /\ StoreFrame(i, FrameOnResponse(FrameOf(i),
                        [kind |-> "http", status |-> 401, text |-> "denied"]))

PairTransportFailure ==
  \E i \in 1..2 :
     /\ calls[i].pc = "awaiting"
     /\ Len(calls[i].log) < MaxPairRequests
     /\ StoreFrame(i, FrameOnResponse(FrameOf(i), [kind |-> "transport"]))

\* the sidebar's default and a limit that one page can reach
PairCounts == {2, DefaultMax}

InitPair ==
  /\ baseUrl = "https://x.atlassian.net/"
  /\ maxToReturn = DefaultMax
  /\ FetchStart
  /\ srvTotal = 0 /\ srvCap = 0
  /\ rawIssue = Null /\ normResult = NotCalled
  /\ desc = Null /\ extraction = NotCalled
  /\ \E m1 \in PairCounts, m2 \in PairCounts : calls = <<NewFrame(m1), NewFrame(m2)>>
  /\ ViewIdle
  /\ PickIdle
  /\ SliceIdle

NextPair == PairStart \/ PairResponseOk \/ PairResponseError \/ PairTransportFailure

PairSpec == InitPair /\ [][NextPair]_vars

\* an invocation of its own, given the responses of log one after the other
RECURSIVE AloneAfter(_, _, _)
AloneAfter(f, log, k) ==
  IF k > Len(log) THEN f
  ELSE AloneAfter(FrameOnResponse(f, log[k]), log, k + 1)

Alone(max, log) == AloneAfter(FrameLoopTop(NewFrame(max)), log, 1)

\* C19: two invocations whose requests and responses interleave do not affect
\* each other: at every point each invocation stands where it would stand had
\* it run alone and received the same responses, with the same accumulator,
\* cursor, outstanding request and result.
C19_InvocationsIndependent ==
  \A i \in 1..2 :
     calls[i].pc # "start" =>
        calls[i] = Alone(calls[i].maxToReturn, calls[i].log)

\* C19: both invocations have received a page while the other was waiting, and
\* both returned issues
C19_Witness ==
  /\ calls[1].pc = "done" /\ calls[2].pc = "done"
  /\ Len(calls[1].log) = 2 /\ Len(calls[2].log) = 2
  /\ Len(calls[1].accumulated) = 2
  /\ Len(calls[2].accumulated) = 3

(***************************************************************************)
(* The sidebar provider: resolveWebviewView, refreshJiraTickets and the    *)
(* loads they start.                                                       *)
(*   config       whether codeslice.jira holds baseUrl, email and apiToken *)
(*   view         _view is set                                             *)
(*   jiraTickets  _jiraTickets, as the keys of the issues                  *)
(*   html         what the webview was last given                          *)
(*   loads        the invocations of loadJiraTickets, in order of start    *)
(*   messages     what showErrorMessage was given, in order                *)
(***************************************************************************)
MaxLoads == 3

\* what getCurrentUserIssues() may resolve to
TicketLists == {<<>>, <<"K-1">>, <<"K-1", "K-2">>}

\* what getCurrentUserIssues() may reject with
FetchErrors ==
  {Rejected("Error", ErrorMessage(401, "denied")), Rejected("TypeError", "fetch failed")}

\* the page shows the tickets it was built from
GetHtml(tickets) == [kind |-> "page", tickets |-> tickets]

\* updateWebview: the page is rebuilt when there is a view
UpdateWebview(tickets) == IF view THEN GetHtml(tickets) ELSE html

\* loads[k].order is the position of load k among the loads that have ended,
\* 0 while it runs; loads[k].result is what its fetch resolved to
NextOrder == Cardinality({j \in 1..Len(loads) : loads[j].order > 0}) + 1

\* loadJiraTickets up to its await, or to its early return
StartLoad(trigger) ==
  loads' = Append(loads,
             IF config = "missing"
             THEN [trigger |-> trigger, state |-> "resolved", fetches |-> 0, fetch |-> "none",
                   order |-> NextOrder, result |-> <<>>]
             ELSE [trigger |-> trigger, state |-> "fetching", fetches |-> 1, fetch |-> "pending",
                   order |-> 0, result |-> <<>>])

\* the tickets are kept only when no load was started after load k
KeptIfLatest(k, tickets) == IF k = Len(loads) THEN tickets ELSE jiraTickets

\* this._jiraTickets = await ...: what load k assigns when its fetch resolves
KeptTickets(k, tickets) == tickets

\* the failed fetch is started again, nothing is shown
CatchRetry(error) == [state |-> "fetching", fetch |-> "pending", retry |-> 1, shown |-> <<>>]

\* the catch block: the error is logged and shown, the load ends normally
CatchBlock(error) ==
  [state |-> "resolved", fetch |-> "rejected", retry |-> 0,
   shown |-> <<"Failed to load Jira tickets: " \o error.name \o ": " \o error.message>>]

ResolveWebviewView ==
  /\ ~view
  /\ Len(loads) < MaxLoads
  /\ view' = TRUE
  /\ html' = GetHtml(jiraTickets)
  /\ StartLoad("resolve")
  /\ UNCHANGED <<config, jiraTickets, messages>>
  /\ UNCHANGED <<baseUrl, srvTotal, srvCap, rawIssue, normResult, desc, extraction, callVars,
               pickVars, sliceVars>>
  /\ UNCHANGED fetchVars

RefreshJiraTickets ==
  /\ Len(loads) < MaxLoads
  /\ StartLoad("refresh")
  /\ UNCHANGED <<config, view, jiraTickets, html, messages>>
  /\ UNCHANGED <<baseUrl, srvTotal, srvCap, rawIssue, normResult, desc, extraction, callVars,
               pickVars, sliceVars>>
  /\ UNCHANGED fetchVars

\* the fetch of load k resolves: the tickets are kept and the page rebuilt
FetchReturns ==
  \E k \in 1..Len(loads), tickets \in TicketLists :
     /\ loads[k].fetch = "pending"
     /\ jiraTickets' = KeptTickets(k, tickets)
     /\ html' = UpdateWebview(jiraTickets')
     /\ loads' = [loads EXCEPT ![k].state = "resolved", ![k].fetch = "returned",
                                ![k].order = NextOrder, ![k].result = tickets]
     /\ UNCHANGED <<config, view, messages>>
     /\ UNCHANGED <<baseUrl, srvTotal, srvCap, rawIssue, normResult, desc, extraction, callVars,
               pickVars, sliceVars>>
     /\ UNCHANGED fetchVars

\* the fetch of load k rejects: the catch block runs
FetchRejects ==
  \E k \in 1..Len(loads), error \in FetchErrors :
     /\ loads[k].fetch = "pending"
     /\ LET c == CatchBlock(error)
        IN /\ loads' = [loads EXCEPT ![k].state = c.state, ![k].fetch = c.fetch,
                                     ![k].fetches = loads[k].fetches + c.retry,
                                     ![k].order = IF c.state = "resolved" THEN NextOrder ELSE 0]
           /\ messages' = messages \o c.shown
     /\ UNCHANGED <<config, view, jiraTickets, html>>
     /\ UNCHANGED <<baseUrl, srvTotal, srvCap, rawIssue, normResult, desc, extraction, callVars,
               pickVars, sliceVars>>
     /\ UNCHANGED fetchVars

\* the user edits the Jira settings, which every load reads anew
ChangeConfiguration ==
  /\ config' = IF config = "complete" THEN "missing" ELSE "complete"
  /\ UNCHANGED <<view, jiraTickets, html, loads, messages>>
  /\ UNCHANGED <<baseUrl, srvTotal, srvCap, rawIssue, normResult, desc, extraction, callVars,
               pickVars, sliceVars>>
  /\ UNCHANGED fetchVars

InitSidebar ==
  /\ baseUrl = "https://x.atlassian.net/"
  /\ maxToReturn = DefaultMax
  /\ FetchStart
  /\ srvTotal = 0 /\ srvCap = 0
  /\ rawIssue = Null /\ normResult = NotCalled
  /\ desc = Null /\ extraction = NotCalled
  /\ CallsIdle
  /\ config \in {"complete", "missing"}
  /\ view = FALSE
  /\ jiraTickets = <<>>
  /\ html = NoHtml
  /\ loads = <<>>
  /\ messages = <<>>
  /\ PickIdle
  /\ SliceIdle

NextSidebar ==
  \/ ResolveWebviewView \/ RefreshJiraTickets \/ FetchReturns \/ FetchRejects
  \/ ChangeConfiguration

SidebarSpec == InitSidebar /\ [][NextSidebar]_vars

FailedLoads == {k \in 1..Len(loads) : loads[k].fetch = "rejected"}

\* C20: a failed fetch started by the initial load or by a refresh is shown as
\* exactly one error message and is not retried: every load starts at most
\* one fetch, a load whose fetch failed has ended normally, no load ever
\* rejects, and there is one message for each failed fetch.
C20_FailureShownOnceNoRetry ==
  /\ \A k \in 1..Len(loads) :
        /\ loads[k].state # "rejected"
        /\ loads[k].fetches <= 1
        /\ loads[k].fetch = "rejected" => loads[k].state = "resolved"
  /\ Len(messages) = Cardinality(FailedLoads)
  /\ \A m \in 1..Len(messages) : StartsWith(messages[m], "Failed to load Jira tickets: ")

\* C20: the initial load failed, then a refresh failed too
C20_Witness ==
  /\ Len(loads) = 2
  /\ loads[1].trigger = "resolve" /\ loads[1].fetch = "rejected"
  /\ loads[2].trigger = "refresh" /\ loads[2].fetch = "rejected"
  /\ Len(messages) = 2

(***************************************************************************)
(* Properties of the request parameters and of the cursor.                 *)
(***************************************************************************)
\* C22: every page request carries the current cursor as startAt, 0 in the
\* first request, and min(50, maxToReturn - records accumulated) as
\* maxResults, which is between 1 and 50 and never more than what is still
\* needed.
C22_RequestParameters ==
  request # NoRequest =>
     /\ request.startAt = startAt
     /\ nreq = 1 => request.startAt = 0
     /\ request.maxResults = Min(50, maxToReturn - Len(accumulated))
     /\ request.maxResults >= 1
     /\ request.maxResults <= 50
     /\ request.maxResults <= maxToReturn - Len(accumulated)

\* C22: of 52 records wanted 50 came in the first page, the next request asks for 2
C22_Witness ==
  /\ request # NoRequest
  /\ maxToReturn = 52
  /\ Len(accumulated) = 50
  /\ request.startAt = 50
  /\ request.maxResults = 2

\* the maxResults sent in the request of the page now at its end
SentMaxResults == Min(50, maxToReturn - (Len(accumulated) - idx))

\* C23: after each successful page the cursor becomes the reported startAt,
\* or the local one, plus the reported maxResults, or the maxResults that was
\* sent in the request of that page.
C23_CursorAdvance ==
  [][pc = "afterFor" =>
       startAt' = Reported("startAt", startAt) + Reported("maxResults", SentMaxResults)
    ]_vars

EndedLoads == {k \in 1..Len(loads) : loads[k].order > 0}

\* the load that ended last
LastEnded == CHOOSE k \in EndedLoads : \A j \in EndedLoads : loads[j].order <= loads[k].order

\* C24: whenever the most recent load failed or was skipped for a missing
\* setting, the ticket list is empty and the view shows no tickets, also when
\* an earlier load had succeeded.
C24_EmptyAfterFailure ==
  (/\ EndedLoads # {}
   /\ EndedLoads = 1..Len(loads)
   /\ loads[LastEnded].fetch \in {"rejected", "none"})
     => /\ jiraTickets = <<>>
        /\ view => html = GetHtml(<<>>)

SucceededLoads == {k \in 1..Len(loads) : loads[k].fetch = "returned"}

\* the load whose fetch was the last to resolve
LastSucceeded ==
  CHOOSE k \in SucceededLoads : \A j \in SucceededLoads : loads[j].order <= loads[k].order

AppliedTwice == Extracted /\ "again" \in DOMAIN extraction

\* C29: extractDescription is idempotent: applied to its own result, for an
\* absent field, a string or a document, it returns that result again; the
\* sentinel 'No description' maps to itself.
C29_Idempotent ==
  AppliedTwice =>
     /\ extraction.again.kind = "return"
     /\ extraction.again.value = extraction.text
     /\ desc \in {Undef, Null} => extraction.again.value = "No description"

\* C29: the flattened text of the nested document was extracted again
C29_Witness ==
  /\ AppliedTwice
  /\ desc = NestedDoc
  /\ extraction.again.value = "foo bar"

(***************************************************************************)
(* pickRandom, one draw of Math.random at a time.                          *)
(*   arr, count    its parameters                                          *)
(*   picked, used  its locals                                              *)
(*   pickPc        where it stands: "start", "loop", "returned"            *)
(***************************************************************************)
MaxArrLen == 4
MaxPickCount == 3

\* an index may be drawn again
FreshAlways(i, seen) == TRUE

\* !used.has(i)
Fresh(i, seen) == i \notin seen

\* lines 15-19: the short array is copied, or the loop is entered
PickCall ==
  /\ pickPc = "start"
  /\ IF Len(arr) <= count
     THEN /\ picked' = arr
          /\ pickPc' = "returned"
     ELSE /\ picked' = <<>>
          /\ pickPc' = IF 0 < count THEN "loop" ELSE "returned"
  /\ used' = {}
  /\ UNCHANGED <<arr, count>>
  /\ UNCHANGED <<baseUrl, srvTotal, srvCap, rawIssue, normResult, desc, extraction,
                 callVars, viewVars, sliceVars>>
  /\ UNCHANGED fetchVars

\* lines 20-26: one iteration, with the index that Math.random gives
Draw ==
  /\ pickPc = "loop"
  /\ \E i \in 1..Len(arr) :
        IF Fresh(i, used)
        THEN /\ used' = used \cup {i}
             /\ picked' = Append(picked, arr[i])
             /\ pickPc' = IF Len(picked') < count THEN "loop" ELSE "returned"
        ELSE UNCHANGED <<used, picked, pickPc>>
  /\ UNCHANGED <<arr, count>>
  /\ UNCHANGED <<baseUrl, srvTotal, srvCap, rawIssue, normResult, desc, extraction,
                 callVars, viewVars, sliceVars>>
  /\ UNCHANGED fetchVars

\* arrays of up to MaxArrLen elements, equal elements among them
PickArrays == UNION {[1..n -> {"a", "b", "c"}] : n \in 0..MaxArrLen}

InitPick ==
  /\ baseUrl = "https://x.atlassian.net/"
  /\ maxToReturn = DefaultMax
  /\ FetchStart
  /\ srvTotal = 0 /\ srvCap = 0
  /\ rawIssue = Null /\ normResult = NotCalled
  /\ desc = Null /\ extraction = NotCalled
  /\ CallsIdle /\ ViewIdle /\ SliceIdle
  /\ arr \in PickArrays
  /\ count \in 0..MaxPickCount
  /\ picked = <<>>
  /\ used = {}
  /\ pickPc = "start"

NextPick == PickCall \/ Draw

\* Math.random is fair: an index not yet used is drawn in the end
PickSpec == InitPick /\ [][NextPick]_vars /\ WF_vars(NextPick)

\* out holds the elements of distinct indices of arr, in the order drawn
FromDistinctIndices(out) ==
  \E f \in [1..Len(out) -> 1..Len(arr)] :
     /\ \A j, k \in 1..Len(out) : j # k => f[j] # f[k]
     /\ \A k \in 1..Len(out) : out[k] = arr[f[k]]

\* C30: pickRandom returns min(count, arr.length) elements taken from
\* distinct indices of arr; an array no longer than count is returned whole
\* and in its order; and under a fair random choice the call returns.
C30_PickRandom ==
  /\ [](pickPc = "returned" =>
          /\ Len(picked) = Min(count, Len(arr))
          /\ FromDistinctIndices(picked)
          /\ Len(arr) <= count => picked = arr)
  /\ [](pickPc = "loop" => (Len(picked) = Cardinality(used) /\ Len(picked) < count))
  /\ <>(pickPc = "returned")

\* C30: three of four elements were picked, the last element first
C30_Witness ==
  /\ pickPc = "returned"
  /\ arr = <<"a", "b", "c", "a">>
  /\ count = 3
  /\ used = {4, 2, 3}
  /\ picked = <<"a", "c", "b">>

(***************************************************************************)
(* sliceAndNotify: the workspace files are classified, up to five of each  *)
(* class are picked and handed to the three tree providers.                *)
(*   workspace     the files that findFiles finds in the folder            *)
(*   filesProvider, testsProvider, docsProvider                            *)
(*                 _files of each provider, with the invocation that set   *)
(*                 them                                                    *)
(*   fired         tree-change events fired so far                         *)
(*   notices       what showInformationMessage was given, in order         *)
(*   slices        the invocations of sliceAndNotify, in order of start    *)
(***************************************************************************)
MaxSlices == 2

SliceCount == 5

\* String.prototype.toLowerCase, on the letters of a path
Lower(s) ==
  LET upper == "ABCDEFGHIJKLMNOPQRSTUVWXYZ"
      lower == "abcdefghijklmnopqrstuvwxyz"
      LowerChar(c) == IF \E k \in 1..26 : CharAt(upper, k) = c
                      THEN CharAt(lower, CHOOSE k \in 1..26 : CharAt(upper, k) = c)
                      ELSE c
      low[n \in 0..Len(s)] == IF n = 0 THEN "" ELSE low[n - 1] \o LowerChar(CharAt(s, n))
  IN low[Len(s)]

\* path.basename: what follows the last separator
Basename(p) ==
  LET seps == {i \in 1..Len(p) : CharAt(p, i) = "/"}
      last == IF seps = {} THEN 0 ELSE CHOOSE i \in seps : \A j \in seps : j <= i
  IN SubSeq(p, last + 1, Len(p))

\* /marker[a-z0-9]+$/ matches base
AlnumTail(base, marker) ==
  \E i \in 1..Len(base) :
     /\ i + Len(marker) <= Len(base)
     /\ SubSeq(base, i, i + Len(marker) - 1) = marker
     /\ \A k \in (i + Len(marker))..Len(base) :
           \E c \in 1..36 : CharAt("abcdefghijklmnopqrstuvwxyz0123456789", c) = CharAt(base, k)

\* /[\/\\]name[\/\\]/ matches p
DirSegment(p, name) ==
  \E i \in 1..Len(p) :
     /\ CharAt(p, i) \in {"/", "\\"}
     /\ i + Len(name) + 1 <= Len(p)
     /\ SubSeq(p, i + 1, i + Len(name)) = name
     /\ CharAt(p, i + Len(name) + 1) \in {"/", "\\"}

EndsWith(s, suffix) ==
  Len(s) >= Len(suffix) /\ SubSeq(s, Len(s) - Len(suffix) + 1, Len(s)) = suffix

\* isTestFile; the two language-specific patterns match nothing that the two
\* general ones do not
IsTestFile(fsPathLower) ==
  LET base == Basename(fsPathLower)
  IN \/ AlnumTail(base, ".test.") \/ AlnumTail(base, ".spec.")
     \/ AlnumTail(base, "test.")
     \/ DirSegment(fsPathLower, "__tests__")
     \/ DirSegment(fsPathLower, "test") \/ DirSegment(fsPathLower, "tests")

\* isDocFile
IsDocFile(fsPathLower) ==
  LET base == Basename(fsPathLower)
      names == {"readme", "changelog", "contributing", "license"}
      exts == {"md", "mdx", "rst", "adoc", "asciidoc", "org", "txt"}
  IN \/ base \in names
     \/ \E n \in names :
           /\ StartsWith(base, n \o ".")
           /\ Len(base) > Len(n) + 1
           /\ \A k \in (Len(n) + 2)..Len(base) :
                 \E c \in 1..36 :
                    CharAt("abcdefghijklmnopqrstuvwxyz0123456789", c) = CharAt(base, k)
     \/ \E e \in exts : EndsWith(base, "." \o e)
     \/ DirSegment(fsPathLower, "docs") \/ DirSegment(fsPathLower, "documentation")

\* every file is pushed to code, and a test file to tests as well
ClassifyOverlap(all) ==
  [code |-> SelectSeq(all, LAMBDA u : ~IsDocFile(Lower(u))),
   tests |-> SelectSeq(all, LAMBDA u : ~IsDocFile(Lower(u)) /\ IsTestFile(Lower(u))),
   docs |-> SelectSeq(all, LAMBDA u : IsDocFile(Lower(u)))]

\* lines 20-35: docs first, then tests, the rest is code
Classify(all) ==
  [code |-> SelectSeq(all, LAMBDA u : ~IsDocFile(Lower(u)) /\ ~IsTestFile(Lower(u))),
   tests |-> SelectSeq(all, LAMBDA u : ~IsDocFile(Lower(u)) /\ IsTestFile(Lower(u))),
   docs |-> SelectSeq(all, LAMBDA u : IsDocFile(Lower(u)))]

\* the whole array whatever its length
PickWhole(a, n) == {a}

\* what pickRandom(a, n) may return: the array itself when it is no longer
\* than n, else the elements of n distinct indices in the order drawn
PickResults(a, n) ==
  LET draws[m \in 0..n] ==
        IF m = 0 THEN {<<>>}
        ELSE {Append(d, i) : <<d, i>> \in
                {<<e, j>> \in draws[m - 1] \X (1..Len(a)) :
                    \A k \in 1..Len(e) : e[k] # j}}
  IN IF Len(a) <= n THEN {a}
     ELSE {[k \in 1..n |-> a[d[k]]] : d \in draws[n]}

\* the guard is never taken
NoFilesNever(all) == FALSE

\* !all || all.length === 0
NoFiles(all) == all = <<>>

\* setFiles as called by invocation k: _files is replaced
SetFiles(k, uris) == [files |-> uris, by |-> k]

\* folders: no file; one file of each class; names that several patterns match;
\* a folder of few files
Workspaces ==
  {<<>>,
   <<"/w/README.md", "/w/src/app.ts", "/w/src/app.test.ts">>,
   <<"/w/docs/api.test.js", "/w/src/latest.js", "/w/test/helper.js", "/w/LICENSE",
     "/w/src/Notes.TXT", "/w/src/main.py", "/w/src/App.Spec.TS">>,
   <<"/w/CHANGELOG", "/w/__tests__/run.js", "/w/tests.js">>}

\* a folder with more code files than a tree shows
LargeWorkspace ==
  <<"/w/a.ts", "/w/b.ts", "/w/c.ts", "/w/guide.md", "/w/d.ts", "/w/e.ts", "/w/f.ts",
    "/w/e.test.ts">>

\* files are added to the folder or removed from it
WorkspaceChanges ==
  /\ \E w \in Workspaces : w # workspace /\ workspace' = w
  /\ UNCHANGED <<filesProvider, testsProvider, docsProvider, fired, notices, slices>>
  /\ UNCHANGED <<baseUrl, srvTotal, srvCap, rawIssue, normResult, desc, extraction,
                 callVars, viewVars, pickVars>>
  /\ UNCHANGED fetchVars

\* sliceAndNotify is called and waits for findFiles
SliceCall ==
  /\ Len(slices) < MaxSlices
  /\ slices' = Append(slices, [state |-> "finding", all |-> <<>>])
  /\ UNCHANGED <<workspace, filesProvider, testsProvider, docsProvider, fired, notices>>
  /\ UNCHANGED <<baseUrl, srvTotal, srvCap, rawIssue, normResult, desc, extraction,
                 callVars, viewVars, pickVars>>
  /\ UNCHANGED fetchVars

\* findFiles resolves for invocation k, which runs to its end
SliceFound ==
  \E k \in 1..Len(slices), all \in {workspace} :
     /\ slices[k].state = "finding"
     /\ workspace' = workspace
     /\ slices' = [slices EXCEPT ![k] = [state |-> "done", all |-> all]]
     /\ IF NoFiles(all)
        THEN /\ notices' = Append(notices, "No files found in the current workspace.")
             /\ UNCHANGED <<filesProvider, testsProvider, docsProvider, fired>>
        ELSE LET classes == Classify(all)
                 codePicks == PickResults(classes.code, SliceCount)
                 testPicks == PickResults(classes.tests, SliceCount)
                 docPicks == PickResults(classes.docs, SliceCount)
             IN \E selectedDocs \in docPicks, selectedTests \in testPicks,
                   selectedCode \in codePicks :
                /\ filesProvider' = SetFiles(k, selectedCode)
                /\ testsProvider' = SetFiles(k, selectedTests)
                /\ docsProvider' = SetFiles(k, selectedDocs)
                /\ fired' = fired + 3
                /\ notices' = Append(notices,
                     "Selected files - Code: " \o NatToString(Len(selectedCode))
                        \o ", Tests: " \o NatToString(Len(selectedTests))
                        \o ", Docs: " \o NatToString(Len(selectedDocs)))
     /\ UNCHANGED <<baseUrl, srvTotal, srvCap, rawIssue, normResult, desc, extraction,
                    callVars, viewVars, pickVars>>
     /\ UNCHANGED fetchVars

InitSlice ==
  /\ baseUrl = "https://x.atlassian.net/"
  /\ maxToReturn = DefaultMax
  /\ FetchStart
  /\ srvTotal = 0 /\ srvCap = 0
  /\ rawIssue = Null /\ normResult = NotCalled
  /\ desc = Null /\ extraction = NotCalled
  /\ CallsIdle /\ ViewIdle /\ PickIdle
  /\ workspace \in Workspaces
  /\ filesProvider = SetFiles(0, <<>>)
  /\ testsProvider = SetFiles(0, <<>>)
  /\ docsProvider = SetFiles(0, <<>>)
  /\ fired = 0
  /\ notices = <<>>
  /\ slices = <<>>

NextSlice == SliceCall \/ SliceFound \/ WorkspaceChanges

SliceSpec == InitSlice /\ [][NextSlice]_vars

\* the large folder, opened after MaxSlices - 1 slices that found no file
InitTrim ==
  /\ baseUrl = "https://x.atlassian.net/"
  /\ maxToReturn = DefaultMax
  /\ FetchStart
  /\ srvTotal = 0 /\ srvCap = 0
  /\ rawIssue = Null /\ normResult = NotCalled
  /\ desc = Null /\ extraction = NotCalled
  /\ CallsIdle /\ ViewIdle /\ PickIdle
  /\ workspace = LargeWorkspace
  /\ filesProvider = SetFiles(0, <<>>)
  /\ testsProvider = SetFiles(0, <<>>)
  /\ docsProvider = SetFiles(0, <<>>)
  /\ fired = 0
  /\ notices = [k \in 1..(MaxSlices - 1) |-> "No files found in the current workspace."]
  /\ slices = [k \in 1..(MaxSlices - 1) |-> [state |-> "done", all |-> <<>>]]

TrimSpec == InitTrim /\ [][NextSlice]_vars

(***************************************************************************)
(* Properties of the slice                                                 *)
(***************************************************************************)
FilesOf(s) == {s[i] : i \in 1..Len(s)}

\* the providers show what invocation k set
ShownBy(k) ==
  /\ k > 0
  /\ filesProvider.by = k /\ testsProvider.by = k /\ docsProvider.by = k

\* each file of the folder is in exactly one of the three classes
Partitioned(all) ==
  LET classes == Classify(all)
  IN /\ FilesOf(classes.code) \cup FilesOf(classes.tests) \cup FilesOf(classes.docs)
          = FilesOf(all)
     /\ Len(classes.code) + Len(classes.tests) + Len(classes.docs) = Len(all)
     /\ FilesOf(classes.code) \cap FilesOf(classes.tests) = {}
     /\ FilesOf(classes.code) \cap FilesOf(classes.docs) = {}
     /\ FilesOf(classes.tests) \cap FilesOf(classes.docs) = {}

\* C21: after a slice over a non-empty folder each tree holds at most five
\* files of the folder, the Files tree holds no test and no documentation
\* file, the Tests tree holds test files that are no documentation, the
\* Documentation tree holds documentation files, and the three classes
\* partition the files of the folder.
C21_TreesHoldTheirCategory ==
  \A k \in 1..Len(slices) :
     (slices[k].state = "done" /\ slices[k].all # <<>> /\ filesProvider.by = k) =>
        /\ Len(filesProvider.files) <= 5
        /\ Len(testsProvider.files) <= 5
        /\ Len(docsProvider.files) <= 5
        /\ FilesOf(filesProvider.files) \cup FilesOf(testsProvider.files)
              \cup FilesOf(docsProvider.files) \subseteq FilesOf(slices[k].all)
        /\ \A u \in FilesOf(filesProvider.files) :
              ~IsDocFile(Lower(u)) /\ ~IsTestFile(Lower(u))
        /\ \A u \in FilesOf(testsProvider.files) :
              ~IsDocFile(Lower(u)) /\ IsTestFile(Lower(u))
        /\ \A u \in FilesOf(docsProvider.files) : IsDocFile(Lower(u))
        /\ Partitioned(slices[k].all)

\* five of the six code files of the large folder are shown, with its test
C21_Witness ==
  /\ ShownBy(MaxSlices)
  /\ slices[MaxSlices].all = LargeWorkspace
  /\ Len(filesProvider.files) = 5
  /\ testsProvider.files = <<"/w/e.test.ts">>
  /\ docsProvider.files = <<"/w/guide.md">>

\* C27: whatever the interleaving of the slice invocations, the three
\* providers show what one and the same invocation set, and the three
\* selections are pairwise disjoint.
C27_OneInvocationDisjoint ==
  /\ filesProvider.by = testsProvider.by
  /\ testsProvider.by = docsProvider.by
  /\ FilesOf(filesProvider.files) \cap FilesOf(testsProvider.files) = {}
  /\ FilesOf(filesProvider.files) \cap FilesOf(docsProvider.files) = {}
  /\ FilesOf(testsProvider.files) \cap FilesOf(docsProvider.files) = {}

\* two invocations overlapped and found different files; the one that was
\* started first ended last, and all three trees show its selection
C27_Witness ==
  /\ Len(slices) = 2
  /\ slices[1].state = "done" /\ slices[2].state = "done"
  /\ slices[1].all # <<>> /\ slices[2].all # <<>>
  /\ slices[1].all # slices[2].all
  /\ ShownBy(1)
  /\ filesProvider.files # <<>> /\ testsProvider.files # <<>>
  /\ docsProvider.files # <<>>

\* C28: an invocation that finds no file shows the 'No files found' message,
\* leaves the three providers as they were and fires no tree-change event.
C28_NoFilesNoChange ==
  [][\A k \in 1..Len(slices) :
        (slices[k].state = "finding" /\ slices'[k].state = "done"
            /\ slices'[k].all = <<>>) =>
           /\ notices' = Append(notices, "No files found in the current workspace.")
           /\ filesProvider' = filesProvider
           /\ testsProvider' = testsProvider
           /\ docsProvider' = docsProvider
           /\ fired' = fired]_vars

\* the selection of the first invocation is still shown after the second
\* one found no file
C28_Witness ==
  /\ Len(slices) = 2
  /\ slices[2].state = "done" /\ slices[2].all = <<>>
  /\ ShownBy(1)
  /\ filesProvider.files # <<>>
  /\ fired = 3
  /\ notices # <<>>
  /\ notices[Len(notices)] = "No files found in the current workspace."

=============================================================================
